---- MODULE Spec2Model ----
(***************************************************************************)
(* Model of the element traversals of dcmutl.py: ds_to_dict,               *)
(* extract_all_elements, the element loop of get_dicom_elements_file; of   *)
(* get_image_index; and of update_tags_ds.                                 *)
(*                                                                         *)
(* A Dataset is a sequence of elements in tag order.  An element is a      *)
(* record [tag, VR, value]; tag is an index into the tag table below and   *)
(* value is a record [py, s, items]: py is the Python type of the value    *)
(* ("str", "bytes" or "seq"), s its text and items the nested Datasets of  *)
(* a sequence.                                                             *)
(*                                                                         *)
(* Text is kept as a sequence of tokens, one token per piece the code      *)
(* concatenates; every space of an indentation is a token of its own, so   *)
(* that the indentation of a line can be counted.                          *)
(***************************************************************************)
EXTENDS Integers, Sequences, FiniteSets, TLC

VARIABLES ds, call, ret

vars == <<ds, call, ret>>

(***************************************************************************)
(* Bounds of the model.                                                    *)
(***************************************************************************)
\* Elements plus sequence items of a Dataset, all nesting levels together.
MaxNodes == 5
\* get_image_index is called with n in 1..MaxN and t in 0..MaxT.
MaxN == 5
MaxT == 24

(***************************************************************************)
(* The tags of the model, in tag order, and what an element of each        *)
(* exposes: str(elem.tag), elem.keyword (empty for a tag the dictionary    *)
(* does not know, as the private tags), elem.name (the display name;       *)
(* private elements share one) and elem.VR.                                *)
(***************************************************************************)
TagTable ==
    << [str |-> "(0008, 0060)", keyword |-> "Modality",
        name |-> "Modality", VR |-> "CS"],
       [str |-> "(0008, 1110)", keyword |-> "ReferencedStudySequence",
        name |-> "Referenced Study Sequence", VR |-> "SQ"],
       [str |-> "(0010, 0020)", keyword |-> "PatientID",
        name |-> "Patient ID", VR |-> "LO"],
       [str |-> "(0029, 1010)", keyword |-> "",
        name |-> "Private tag data", VR |-> "UN"],
       [str |-> "(0029, 1011)", keyword |-> "",
        name |-> "Private tag data", VR |-> "UN"],
       [str |-> "(7fe0, 0010)", keyword |-> "PixelData",
        name |-> "Pixel Data", VR |-> "OW"] >>

NumTags == Len(TagTable)

TagStr(t) == TagTable[t].str
ElemKeyword(e) == TagTable[e.tag].keyword
ElemName(e) == TagTable[e.tag].name
TagVR(t) == TagTable[t].VR

StrValue(s) == [py |-> "str", s |-> s, items |-> <<>>]
BytesValue(s) == [py |-> "bytes", s |-> s, items |-> <<>>]
SeqValue(items) == [py |-> "seq", s |-> "", items |-> items]

\* The values an element of a tag may hold in the model.
ScalarValues(t) ==
    CASE TagTable[t].keyword = "Modality" -> {StrValue("CT")}
      [] TagTable[t].keyword = "PatientID" -> {StrValue("123")}
      [] TagTable[t].keyword = "PixelData" -> {BytesValue("\\x00")}
      [] TagTable[t].str = "(0029, 1010)" -> {BytesValue("a")}
      [] TagTable[t].str = "(0029, 1011)" -> {BytesValue("b")}

Elem(t, v) == [tag |-> t, VR |-> TagVR(t), value |-> v]

RECURSIVE Nodes(_)
RECURSIVE ItemNodes(_)
\* Elements and sequence items of a Dataset.
Nodes(d) ==
    IF d = <<>> THEN 0
    ELSE 1 + ItemNodes(Head(d).value.items) + Nodes(Tail(d))
ItemNodes(l) ==
    IF l = <<>> THEN 0 ELSE 1 + Nodes(Head(l)) + ItemNodes(Tail(l))

RECURSIVE DatasetsFrom(_, _)
RECURSIVE ItemLists(_)
\* The Datasets over tags t..NumTags, in tag order, of at most b nodes.
DatasetsFrom(t, b) ==
    IF t > NumTags \/ b = 0 THEN {<<>>}
    ELSE LET vals == IF TagVR(t) = "SQ"
                     THEN {SeqValue(l) : l \in ItemLists(b - 1)}
                     ELSE ScalarValues(t)
         IN  DatasetsFrom(t + 1, b)
             \cup UNION {{<<Elem(t, v)>> \o rest :
                            rest \in DatasetsFrom(t + 1, b - 1 - ItemNodes(v.items))} :
                         v \in vals}
\* The lists of nested Datasets of at most b nodes, items counted.
ItemLists(b) ==
    IF b = 0 THEN {<<>>}
    ELSE {<<>>}
         \cup UNION {{<<d>> \o l : l \in ItemLists(b - 1 - Nodes(d))} :
                     d \in DatasetsFrom(1, b - 1)}

Datasets == DatasetsFrom(1, MaxNodes)

(***************************************************************************)
(* Text.                                                                   *)
(***************************************************************************)
Digit(n) ==
    CASE n = 0 -> "0" [] n = 1 -> "1" [] n = 2 -> "2" [] n = 3 -> "3"
      [] n = 4 -> "4" [] n = 5 -> "5" [] n = 6 -> "6" [] n = 7 -> "7"
      [] n = 8 -> "8" [] n = 9 -> "9"

RECURSIVE IntToStr(_)
\* str(n) and the {i} of an f-string, n >= 0: decimal digits.
IntToStr(n) ==
    IF n < 10 THEN Digit(n) ELSE IntToStr(n \div 10) \o Digit(n % 10)

\* str(elem.value) of a non-sequence element.
Str(v) ==
    CASE v.py = "str" -> v.s
      [] v.py = "bytes" -> "b'" \o v.s \o "'"

RECURSIVE Spaces(_)
\* " " * indent
Spaces(n) == IF n <= 0 THEN <<>> ELSE <<" ">> \o Spaces(n - 1)

(***************************************************************************)
(* ds_to_dict.  A dict is a sequence of entries [key, val] in insertion    *)
(* order; val is [isList, str, list].                                      *)
(***************************************************************************)
StrEntry(s) == [isList |-> FALSE, str |-> s, list |-> <<>>]
ListEntry(l) == [isList |-> TRUE, str |-> "", list |-> l]

HasKey(out, key) == \E j \in 1..Len(out) : out[j].key = key

\* DictSet that adds an entry without looking for the key.
DictSetAlwaysAppend(out, key, val) == Append(out, [key |-> key, val |-> val])

\* out[key] = val: replaces the value of an existing key, else adds the key.
DictSet(out, key, val) ==
    IF HasKey(out, key)
    THEN [j \in 1..Len(out) |->
            IF out[j].key = key THEN [key |-> key, val |-> val] ELSE out[j]]
    ELSE Append(out, [key |-> key, val |-> val])

RECURSIVE ds_to_dict_loop(_, _)
RECURSIVE ds_to_dict_items(_)
\* The loop of ds_to_dict over the elements d still has to visit.
ds_to_dict_loop(d, out) ==
    IF d = <<>> THEN out
    ELSE LET elem == Head(d)
         IN  IF elem.VR = "SQ"
             THEN ds_to_dict_loop(Tail(d),
                      DictSet(out, ElemName(elem),
                              ListEntry(ds_to_dict_items(elem.value.items))))
             ELSE ds_to_dict_loop(Tail(d),
                      DictSet(out, ElemName(elem), StrEntry(Str(elem.value))))
RECURSIVE ds_to_dict_items_reversed(_)
\* ds_to_dict_items that collects the nested mappings last to first.
ds_to_dict_items_reversed(items) ==
    IF items = <<>> THEN <<>>
    ELSE ds_to_dict_items_reversed(Tail(items)) \o <<ds_to_dict_loop(Head(items), <<>>)>>

\* [ds_to_dict(item) for item in elem.value]
ds_to_dict_items(items) ==
    IF items = <<>> THEN <<>>
    ELSE <<ds_to_dict_loop(Head(items), <<>>)>> \o ds_to_dict_items(Tail(items))

ds_to_dict(d) == ds_to_dict_loop(d, <<>>)

(***************************************************************************)
(* extract_all_elements.  attrs is [isNone, keys]: None, or a list of      *)
(* keywords.  A path is a token sequence, empty for "".                    *)
(***************************************************************************)
AttrsNone == [isNone |-> TRUE, keys |-> {}]
AttrsList(keys) == [isNone |-> FALSE, keys |-> keys]

\* elem.keyword or elem.tag
KeywordOrTag(elem) ==
    IF ElemKeyword(elem) # ""
    THEN [isTag |-> FALSE, s |-> ElemKeyword(elem)]
    ELSE [isTag |-> TRUE, s |-> TagStr(elem.tag)]

\* CurrentPath that forgets the path of the enclosing items.
CurrentPathKeywordOnly(path, keyword) == <<keyword.s>>

\* f"{path}.{keyword}" if path else keyword
CurrentPath(path, keyword) ==
    IF path # <<>> THEN path \o <<".", keyword.s>> ELSE <<keyword.s>>

\* f"{current_path}[{i}]"
SeqPath(current_path, i) == current_path \o <<"[", IntToStr(i), "]">>

\* " " * indent + f"[Sequence Item] {seq_path}"
HeaderLine(indent, seq_path) == Spaces(indent) \o <<"[Sequence Item] ">> \o seq_path

\* " " * indent + f"{keyword} --> {elem.value}"
ElementLine(indent, keyword, value) == Spaces(indent) \o <<keyword.s, " --> ", Str(value)>>

\* IsPixelData that compares with the display name instead of the keyword.
IsPixelDataByName(keyword) == ~keyword.isTag /\ keyword.s = "Pixel Data"

\* keyword == "PixelData"
IsPixelData(keyword) == ~keyword.isTag /\ keyword.s = "PixelData"

\* PassesFilter that tests "not attrs": an empty list passes every keyword.
PassesFilterEmptyAsNone(attrs, keyword) ==
    attrs.isNone \/ attrs.keys = {} \/ (~keyword.isTag /\ keyword.s \in attrs.keys)

\* attrs is None or keyword in attrs
PassesFilter(attrs, keyword) ==
    attrs.isNone \/ (~keyword.isTag /\ keyword.s \in attrs.keys)

\* NestedIndent that adds 2.
NestedIndentTwo(indent) == indent + 2

\* indent + 4
NestedIndent(indent) == indent + 4

RECURSIVE extract_all_elements(_, _, _, _, _)
RECURSIVE extract_items(_, _, _, _, _, _)
\* The list elements after extract_all_elements(d, elements, indent, attrs, path).
extract_all_elements(d, elems, indent, attrs, path) ==
    IF d = <<>> THEN elems
    ELSE LET elem == Head(d)
             keyword == KeywordOrTag(elem)
             current_path == CurrentPath(path, keyword)
             after ==
                 IF elem.VR = "SQ"
                 THEN extract_items(elem.value.items, 0, elems, indent, attrs, current_path)
                 ELSE IF IsPixelData(keyword) THEN elems
                 ELSE IF PassesFilter(attrs, keyword)
                      THEN Append(elems, ElementLine(indent, keyword, elem.value))
                      ELSE elems
         IN  extract_all_elements(Tail(d), after, indent, attrs, path)
RECURSIVE extract_items_by_length(_, _, _, _, _, _)
\* extract_items that numbers an item by the length of the list so far.
extract_items_by_length(items, i, elems, indent, attrs, current_path) ==
    IF items = <<>> THEN elems
    ELSE LET seq_path == SeqPath(current_path, Len(elems))
             withHeader == Append(elems, HeaderLine(indent, seq_path))
             withItem == extract_all_elements(Head(items), withHeader,
                                              NestedIndent(indent), attrs, seq_path)
         IN  extract_items_by_length(Tail(items), i + 1, withItem, indent, attrs,
                                     current_path)

\* for i, item in enumerate(elem.value): items are those from index i on.
extract_items(items, i, elems, indent, attrs, current_path) ==
    IF items = <<>> THEN elems
    ELSE LET seq_path == SeqPath(current_path, i)
             withHeader == Append(elems, HeaderLine(indent, seq_path))
             withItem == extract_all_elements(Head(items), withHeader,
                                              NestedIndent(indent), attrs, seq_path)
         IN  extract_items(Tail(items), i + 1, withItem, indent, attrs, current_path)

(***************************************************************************)
(* The element loop of get_dicom_elements_file.  Iterating a Dataset       *)
(* yields its elements (as in ds_to_dict and extract_all_elements), so k   *)
(* is an element and ds[k] looks the Dataset up by an element: the lookup  *)
(* is the library's, and either raises KeyError or yields the element.     *)
(***************************************************************************)
\* str(elem): tag, name, VR and the value's display form.
ElemStr(elem) ==
    <<TagStr(elem.tag), " ", ElemName(elem), " ", elem.VR, ": ",
      IF elem.VR = "SQ"
      THEN "<Sequence, length " \o IntToStr(Len(elem.value.items)) \o ">"
      ELSE "'" \o Str(elem.value) \o "'">>

\* '{} --> {}'.format(k, ele)
FlatLine(k, ele) == ElemStr(k) \o <<" --> ">> \o ElemStr(ele)

\* attrs is None, else ele.keyword in attrs
FlatPasses(attrs, ele) == attrs.isNone \/ ElemKeyword(ele) \in attrs.keys

RECURSIVE flat_loop(_, _, _)
\* for k in ds: ele = ds[k]; ...  with every lookup succeeding.
flat_loop(d, lines, attrs) ==
    IF d = <<>> THEN lines
    ELSE LET k == Head(d)
             ele == k
         IN  flat_loop(Tail(d),
                       IF FlatPasses(attrs, ele) THEN Append(lines, FlatLine(k, ele))
                       ELSE lines,
                       attrs)

\* get_dicom_elements_file whose lookup fails before the loop is entered.
get_dicom_elements_file_raising(d, attrs, keyError) ==
    IF keyError
    THEN [raised |-> TRUE, lines |-> <<>>]
    ELSE [raised |-> FALSE, lines |-> flat_loop(d, <<>>, attrs)]

\* What the loop leaves: the lines collected, or KeyError from the first ds[k].
get_dicom_elements_file(d, attrs, keyError) ==
    IF d # <<>> /\ keyError
    THEN [raised |-> TRUE, lines |-> <<>>]
    ELSE [raised |-> FALSE, lines |-> flat_loop(d, <<>>, attrs)]

(***************************************************************************)
(* get_image_index.                                                        *)
(***************************************************************************)
RECURSIVE get_image_index_le(_, _, _)
\* get_image_index that tests t <= n.
get_image_index_le(n, t, depth) ==
    IF t <= n THEN [value |-> t, calls |-> depth]
    ELSE get_image_index_le(n, t - n, depth + 1)

RECURSIVE get_image_index(_, _, _)
\* The value returned and the number of recursive calls made on the way.
get_image_index(n, t, depth) ==
    IF t < n THEN [value |-> t, calls |-> depth]
    ELSE get_image_index(n, t - n, depth + 1)

(***************************************************************************)
(* The calls.  The library keeps no state of its own: ds is the parsed     *)
(* Dataset the calls are made on, call is the last call and its            *)
(* arguments, ret is what that call left: its return value, or the list    *)
(* elements it was handed, or the lines its loop collected.                *)
(***************************************************************************)
Filters ==
    {AttrsNone, AttrsList({}), AttrsList({"Modality"}),
     AttrsList({"PixelData", "PatientID"})}
Indents == {0, 2}
Paths == {<<>>, <<"Root">>}
\* The list a caller hands over: a new one, or one that holds lines already
\* (get_dicom_elements_file_nested_text appends "\n[Dataset]" first).
PriorLists == {<<>>, << <<"\n[Dataset]">> >>}

Init ==
    /\ ds \in Datasets
    /\ call = [op |-> "none"]
    /\ ret = "None"

IndexInit ==
    /\ ds = <<>>
    /\ call = [op |-> "none"]
    /\ ret = "None"

\* ds_dict = ds_to_dict(ds)
DsToDict ==
    /\ call' = [op |-> "ds_to_dict"]
    /\ ret' = ds_to_dict(ds)
    /\ UNCHANGED ds

\* extract_all_elements(ds, elements, indent, attrs, path)
ExtractAllElements ==
    \E before \in PriorLists, indent \in Indents, attrs \in Filters, path \in Paths :
        /\ call' = [op |-> "extract_all_elements", indent |-> indent,
                    attrs |-> attrs, path |-> path, before |-> before]
        /\ ret' = extract_all_elements(ds, before, indent, attrs, path)
        /\ UNCHANGED ds

\* The element loop of get_dicom_elements_file(file, dest_folder, attrs).
GetDicomElementsFile ==
    \E attrs \in Filters, keyError \in BOOLEAN :
        /\ call' = [op |-> "get_dicom_elements_file", attrs |-> attrs]
        /\ ret' = get_dicom_elements_file(ds, attrs, keyError)
        /\ UNCHANGED ds

\* get_image_index(n, t)
GetImageIndex ==
    \E n \in 1..MaxN, t \in 0..MaxT :
        /\ call' = [op |-> "get_image_index", n |-> n, t |-> t]
        /\ ret' = get_image_index(n, t, 0)
        /\ UNCHANGED ds

Next ==
    \/ DsToDict
    \/ ExtractAllElements
    \/ GetDicomElementsFile

IndexNext == GetImageIndex

Spec == Init /\ [][Next]_vars

SpecIndex == IndexInit /\ [][IndexNext]_vars

(***************************************************************************)
(* What the claims speak of: the nodes of a Dataset in depth-first         *)
(* pre-order, each with its nesting depth (the number of enclosing         *)
(* sequence items) and the steps from the root: <<keyword, index>> for     *)
(* every sequence item entered.                                            *)
(***************************************************************************)
RECURSIVE Walk(_, _, _)
RECURSIVE WalkItems(_, _, _, _, _)
Walk(d, depth, steps) ==
    IF d = <<>> THEN <<>>
    ELSE LET e == Head(d)
         IN  (IF e.VR = "SQ"
              THEN WalkItems(e.value.items, 0, e, depth, steps)
              ELSE <<[kind |-> "elem", depth |-> depth, elem |-> e, steps |-> steps]>>)
             \o Walk(Tail(d), depth, steps)
WalkItems(items, i, e, depth, steps) ==
    IF items = <<>> THEN <<>>
    ELSE LET here == Append(steps, <<KeywordOrTag(e).s, i>>)
         IN  <<[kind |-> "item", depth |-> depth, elem |-> e, steps |-> here]>>
             \o Walk(Head(items), depth + 1, here)
             \o WalkItems(Tail(items), i + 1, e, depth, steps)

RECURSIVE Render(_)
\* The string a token sequence stands for.
Render(line) == IF line = <<>> THEN "" ELSE Head(line) \o Render(Tail(line))

\* out[key], for a key of out.
DictGet(out, key) == out[CHOOSE j \in 1..Len(out) : out[j].key = key].val

\* The lines the last call of extract_all_elements added to its list.
Appended == SubSeq(ret, Len(call.before) + 1, Len(ret))

RECURSIVE LeadingSpaces(_)
LeadingSpaces(line) ==
    IF line # <<>> /\ Head(line) = " " THEN 1 + LeadingSpaces(Tail(line)) ELSE 0

\* A line without its indentation.
Body(line) == SubSeq(line, LeadingSpaces(line) + 1, Len(line))

IsHeaderLine(line) == Body(line) # <<>> /\ Body(line)[1] = "[Sequence Item] "
IsElementLine(line) == Len(Body(line)) = 3 /\ Body(line)[2] = " --> "

Extracting == call.op = "extract_all_elements"

NoSequences(d) == \A i \in 1..Len(d) : d[i].VR # "SQ"

\* No later element of d has the display name of d[i].
LastOfName(d, i) == \A j \in (i + 1)..Len(d) : ElemName(d[j]) # ElemName(d[i])

(***************************************************************************)
(* C1 (as amended): in the result of ds_to_dict, every element that no     *)
(* later element of its Dataset shares its display name with is mapped     *)
(* from that name: a sequence element of k nested Datasets to a list of    *)
(* exactly k mappings, the i-th being ds_to_dict of the i-th nested        *)
(* Dataset, and so on at every nesting depth; any other element to the     *)
(* string form of its value.                                               *)
(***************************************************************************)
RECURSIVE MapsElements(_, _, _)
\* onlyLast: speak of the last element of each display name only.
MapsElements(d, out, onlyLast) ==
    \A i \in 1..Len(d) :
        (onlyLast => LastOfName(d, i)) =>
            /\ HasKey(out, ElemName(d[i]))
            /\ LET val == DictGet(out, ElemName(d[i]))
                   items == d[i].value.items
               IN  IF d[i].VR = "SQ"
                   THEN /\ val.isList
                        /\ Len(val.list) = Len(items)
                        /\ \A j \in 1..Len(items) :
                              /\ val.list[j] = ds_to_dict(items[j])
                              /\ MapsElements(items[j], val.list[j], onlyLast)
                   ELSE /\ ~val.isList
                        /\ val.str = Str(d[i].value)

C1_NestedMapOfLastNames ==
    call.op = "ds_to_dict" => MapsElements(ds, ret, TRUE)

\* C1 as stated: every element, also one whose name a later element has.
C1_NestedMapOfEveryElement ==
    call.op = "ds_to_dict" => MapsElements(ds, ret, FALSE)

\* A sequence of two nested Datasets, the first of them not empty, converted.
C1_Witness ==
    /\ call.op = "ds_to_dict"
    /\ \E i \in 1..Len(ds) :
          /\ ds[i].VR = "SQ"
          /\ Len(ds[i].value.items) = 2
          /\ ds[i].value.items[1] # <<>>
          /\ ds[i].value.items[2] = <<>>

(***************************************************************************)
(* C2: for a Dataset without sequence elements the result of ds_to_dict    *)
(* has as many keys as the elements have distinct display names, no key    *)
(* twice, and under each name the string form of the value of the last     *)
(* element (in tag order) of that name.                                    *)
(***************************************************************************)
C2_OneEntryPerName ==
    (call.op = "ds_to_dict" /\ NoSequences(ds)) =>
        /\ Len(ret) = Cardinality({ElemName(ds[i]) : i \in 1..Len(ds)})
        /\ \A a, b \in 1..Len(ret) : ret[a].key = ret[b].key => a = b
        /\ \A i \in 1..Len(ds) :
              LastOfName(ds, i) =>
                  /\ HasKey(ret, ElemName(ds[i]))
                  /\ DictGet(ret, ElemName(ds[i])) = StrEntry(Str(ds[i].value))

\* Two elements of one display name and a third element, converted.
C2_Witness ==
    /\ call.op = "ds_to_dict"
    /\ NoSequences(ds)
    /\ Len(ds) = 3
    /\ \E i, j \in 1..Len(ds) : i < j /\ ElemName(ds[i]) = ElemName(ds[j])

(***************************************************************************)
(* C3: extract_all_elements never adds an element line for PixelData,      *)
(* "<indent>PixelData --> <value>", whatever the Dataset, the nesting      *)
(* depth and the filter.                                                   *)
(***************************************************************************)
C3_NoPixelDataLine ==
    Extracting =>
        \A j \in 1..Len(ret) :
            ~(IsElementLine(ret[j]) /\ Body(ret[j])[1] = "PixelData")

\* A Dataset with PixelData at the top and inside a sequence item, walked
\* with a filter that names PixelData.
C3_Witness ==
    /\ Extracting
    /\ "PixelData" \in call.attrs.keys
    /\ \E a, b \in 1..Len(Walk(ds, 0, <<>>)) :
          LET na == Walk(ds, 0, <<>>)[a]
              nb == Walk(ds, 0, <<>>)[b]
          IN  /\ na.kind = "elem" /\ nb.kind = "elem"
              /\ ElemKeyword(na.elem) = "PixelData" /\ na.depth = 0
              /\ ElemKeyword(nb.elem) = "PixelData" /\ nb.depth = 1

(***************************************************************************)
(* The nodes of ds a walk with the filter attrs has a line for, in         *)
(* pre-order: every sequence item, and every element that is neither a     *)
(* sequence nor PixelData and that the filter lets pass.  emptyPasses      *)
(* tells whether an empty list lets every keyword pass, as None does.      *)
(***************************************************************************)
FilterLets(attrs, e, emptyPasses) ==
    \/ attrs.isNone
    \/ (emptyPasses /\ attrs.keys = {})
    \/ ElemKeyword(e) \in attrs.keys

HasLine(node, attrs, emptyPasses) ==
    \/ node.kind = "item"
    \/ /\ ElemKeyword(node.elem) # "PixelData"
       /\ FilterLets(attrs, node.elem, emptyPasses)

LineNodes(attrs, emptyPasses) ==
    LET keep(node) == HasLine(node, attrs, emptyPasses)
    IN  SelectSeq(Walk(ds, 0, <<>>), keep)

ElementNodes(attrs, emptyPasses) ==
    LET keep(node) == node.kind = "elem"
    IN  SelectSeq(LineNodes(attrs, emptyPasses), keep)

ElementLines == SelectSeq(Appended, IsElementLine)
HeaderLines == SelectSeq(Appended, IsHeaderLine)

\* The element lines added are those of the elements the filter lets pass.
ElementLinesFollow(emptyPasses) ==
    LET nodes == ElementNodes(call.attrs, emptyPasses)
    IN  /\ Len(ElementLines) = Len(nodes)
        /\ \A j \in 1..Len(nodes) :
              Render(Body(ElementLines[j]))
                  = KeywordOrTag(nodes[j].elem).s \o " --> " \o Str(nodes[j].elem.value)

ModalityAndPatientID == <<Elem(1, StrValue("CT")), Elem(3, StrValue("123"))>>

OneModalityLine ==
    (/\ ds = ModalityAndPatientID
     /\ call.attrs = AttrsList({"Modality"})
     /\ call.before = <<>>
     /\ call.indent = 0)
        => [j \in 1..Len(ret) |-> Render(ret[j])] = <<"Modality --> CT">>

(***************************************************************************)
(* C4 (as amended): extract_all_elements skips an element that is neither  *)
(* a sequence nor PixelData only if a filter is given (attrs is not None)  *)
(* and does not contain the element's keyword; without a filter every      *)
(* such element has its line, with an empty filter none has; with the      *)
(* filter {"Modality"} on Modality="CT", PatientID="123" the output is     *)
(* the one line "Modality --> CT".                                         *)
(***************************************************************************)
C4_FilterGivenAndKeywordMissing ==
    Extracting => (ElementLinesFollow(FALSE) /\ OneModalityLine)

\* C4 as stated: an empty filter lets every element pass, as an absent one.
C4_EmptyFilterPassesAll ==
    Extracting => (ElementLinesFollow(TRUE) /\ OneModalityLine)

\* The filter {"Modality"} on Modality and PatientID, into a new list.
C4_Witness ==
    /\ Extracting
    /\ ds = ModalityAndPatientID
    /\ call.attrs = AttrsList({"Modality"})
    /\ call.before = <<>>
    /\ call.indent = 0
    /\ Len(ret) = 1

(***************************************************************************)
(* C5: every line extract_all_elements adds for a node at nesting depth d  *)
(* begins with exactly 4*d spaces more than the indent it was called       *)
(* with (4*d spaces when called with indent 0), followed by the keyword,   *)
(* or by "[Sequence Item]" for the lines of a sequence element at depth d. *)
(***************************************************************************)
C5_IndentFourPerDepth ==
    Extracting =>
        LET nodes == LineNodes(call.attrs, FALSE)
        IN  /\ Len(Appended) = Len(nodes)
            /\ \A j \in 1..Len(nodes) :
                  /\ LeadingSpaces(Appended[j]) = call.indent + 4 * nodes[j].depth
                  /\ Body(Appended[j])[1] =
                        IF nodes[j].kind = "item" THEN "[Sequence Item] "
                        ELSE KeywordOrTag(nodes[j].elem).s

\* Called with indent 0: an element line at depth 2 and a header at depth 1.
C5_Witness ==
    /\ Extracting
    /\ call.indent = 0
    /\ \E a, b \in 1..Len(Appended) :
          /\ IsElementLine(Appended[a]) /\ LeadingSpaces(Appended[a]) = 8
          /\ IsHeaderLine(Appended[b]) /\ LeadingSpaces(Appended[b]) = 4

(***************************************************************************)
(* C10: for a sequence element of k nested Datasets extract_all_elements   *)
(* adds exactly k lines "[Sequence Item] <path>[<i>]", i = 0..k-1 in       *)
(* order, <path> the dotted keywords from the root with an [index] for     *)
(* every enclosing sequence item; each of them before the lines of its     *)
(* own nested Dataset and after those of the item before (depth-first      *)
(* pre-order); and whatever the filter is.                                 *)
(***************************************************************************)
RECURSIVE PathText(_)
\* A[0].B[1] for <<<<"A", 0>>, <<"B", 1>>>>.
PathText(steps) ==
    IF steps = <<>> THEN ""
    ELSE LET last == steps[Len(steps)]
             front == SubSeq(steps, 1, Len(steps) - 1)
         IN  (IF front = <<>> THEN "" ELSE PathText(front) \o ".")
             \o last[1] \o "[" \o IntToStr(last[2]) \o "]"

C10_HeaderPerItemInPreOrder ==
    Extracting =>
        LET nodes == LineNodes(call.attrs, FALSE)
            isItem(node) == node.kind = "item"
            items == SelectSeq(Walk(ds, 0, <<>>), isItem)
            root == IF call.path = <<>> THEN "" ELSE Render(call.path) \o "."
        IN  /\ Len(HeaderLines) = Len(items)
            /\ \A j \in 1..Len(items) :
                  Render(Body(HeaderLines[j]))
                      = "[Sequence Item] " \o root \o PathText(items[j].steps)
            /\ Len(Appended) = Len(nodes)
            /\ \A j \in 1..Len(nodes) :
                  IsHeaderLine(Appended[j]) <=> nodes[j].kind = "item"

\* Item 1 of a sequence inside item 0 of a sequence, under a filter that
\* does not name the sequence.
C10_Witness ==
    /\ Extracting
    /\ call.attrs = AttrsList({"Modality"})
    /\ call.path = <<>>
    /\ \E b \in 1..Len(Appended) :
          Render(Body(Appended[b])) =
              "[Sequence Item] ReferencedStudySequence[0].ReferencedStudySequence[1]"

(***************************************************************************)
(* C6: no traversal changes the Dataset it walks, and                      *)
(* extract_all_elements only appends to the list it is handed: what the    *)
(* list held stays as a prefix, and what is added is what a call with a    *)
(* new empty list and the same arguments yields.                           *)
(***************************************************************************)
C6_DatasetAndPrefixKept ==
    [][/\ ds' = ds
       /\ call'.op = "extract_all_elements" =>
             ret' = call'.before
                      \o extract_all_elements(ds, <<>>, call'.indent, call'.attrs,
                                              call'.path)]_vars

\* A call on a list that held a line already, and that added lines to it.
C6_Witness ==
    /\ Extracting
    /\ call.before # <<>>
    /\ Len(ret) > Len(call.before) + 1

(***************************************************************************)
(* C7: the element loop of get_dicom_elements_file collects exactly one    *)
(* line "<tag> --> <element>" for every top-level element whose keyword    *)
(* passes the filter (no filter, an empty one, or one with the keyword),   *)
(* in tag order, PixelData included, and none for nested elements.         *)
(***************************************************************************)
C7_OneTagLinePerTopLevelElement ==
    call.op = "get_dicom_elements_file" =>
        LET passes(e) == FilterLets(call.attrs, e, TRUE)
            elems == SelectSeq(ds, passes)
        IN  /\ ~ret.raised
            /\ Len(ret.lines) = Len(elems)
            /\ \A j \in 1..Len(elems) :
                  Render(ret.lines[j])
                      = TagStr(elems[j].tag) \o " --> " \o Render(ElemStr(elems[j]))

(***************************************************************************)
(* C8: on an empty Dataset ds_to_dict returns an empty mapping,            *)
(* extract_all_elements adds no line to its list, whatever the indent,     *)
(* the filter and the path, and the loop of get_dicom_elements_file        *)
(* collects no line, whatever the filter.                                  *)
(***************************************************************************)
C8_EmptyDatasetEmptyOutput ==
    ds = <<>> =>
        /\ call.op = "ds_to_dict" => ret = <<>>
        /\ Extracting => ret = call.before
        /\ call.op = "get_dicom_elements_file" => ret = [raised |-> FALSE, lines |-> <<>>]

\* The loop of get_dicom_elements_file run on the empty Dataset with a filter.
C8_Witness ==
    /\ ds = <<>>
    /\ call.op = "get_dicom_elements_file"
    /\ call.attrs = AttrsList({"Modality"})

MaxUpdateNodes == 3

TagNumbers ==
    << <<8, 96>>, <<8, 4368>>, <<16, 32>>, <<41, 4112>>, <<41, 4113>>, <<32736, 16>> >>

HexChars ==
    <<"0", "1", "2", "3", "4", "5", "6", "7", "8", "9",
      "A", "B", "C", "D", "E", "F", "a", "b", "c", "d", "e", "f">>

\* c in '0123456789ABCDEFabcdef'
IsHexChar(c) == \E j \in 1..Len(HexChars) : HexChars[j] = c

\* len(tag_name) == 8 and all(c in '0123456789ABCDEFabcdef' for c in tag_name)
IsHexTagName(tag_name) ==
    Len(tag_name) = 8 /\ \A j \in 1..Len(tag_name) : IsHexChar(tag_name[j])

\* The value of a hexadecimal digit, upper or lower case.
HexDigitValue(c) ==
    LET j == CHOOSE k \in 1..Len(HexChars) : HexChars[k] = c
    IN  IF j <= 16 THEN j - 1 ELSE j - 7

RECURSIVE HexInt(_)
\* int(chars, 16)
HexInt(chars) ==
    IF chars = <<>> THEN 0
    ELSE 16 * HexInt(SubSeq(chars, 1, Len(chars) - 1)) + HexDigitValue(chars[Len(chars)])

\* (group, element) in ds
TagInDs(d, group, element) ==
    \E i \in 1..Len(d) : TagNumbers[d[i].tag] = <<group, element>>

\* ds[group, element].value = value
SetValueAt(d, group, element, value) ==
    [i \in 1..Len(d) |->
        IF TagNumbers[d[i].tag] = <<group, element>>
        THEN [d[i] EXCEPT !.value = value]
        ELSE d[i]]

\* The tags whose keyword tag_name spells: the dictionary's lookup of setattr.
KeywordTags(tag_name) ==
    {t \in 1..NumTags : TagTable[t].keyword # "" /\ TagTable[t].keyword = Render(tag_name)}

\* hasattr(ds, tag_name)
HasAttr(d, tag_name) ==
    \E i \in 1..Len(d) : d[i].tag \in KeywordTags(tag_name)

\* setattr(ds, tag_name, value) for a keyword of the dictionary: the element is
\* given the value, or added in tag order with the VR of the dictionary.
SetAttr(d, tag_name, value) ==
    LET t == CHOOSE k \in KeywordTags(tag_name) : TRUE
        below(e) == e.tag < t
        above(e) == e.tag > t
    IN  SelectSeq(d, below) \o <<Elem(t, value)>> \o SelectSeq(d, above)

Updated(d, swallowed) == [raised |-> FALSE, returned |-> d, swallowed |-> swallowed]

\* update_tags_ds_hex that adds the element when the tag is absent, as the
\* keyword branch does.
update_tags_ds_hex_adding(d, tag_name, value) ==
    LET group == HexInt(SubSeq(tag_name, 1, 4))
        element == HexInt(SubSeq(tag_name, 5, 8))
        known == {t \in 1..NumTags : TagNumbers[t] = <<group, element>>}
        below(e) == \A t \in known : e.tag < t
        above(e) == \A t \in known : e.tag > t
    IN  IF TagInDs(d, group, element) \/ known = {}
        THEN Updated(SetValueAt(d, group, element, value), FALSE)
        ELSE Updated(SelectSeq(d, below)
                       \o <<Elem(CHOOSE t \in known : TRUE, value)>>
                       \o SelectSeq(d, above), FALSE)

\* The branch of a tag given as 8 hexadecimal characters.
update_tags_ds_hex(d, tag_name, value) ==
    LET group == HexInt(SubSeq(tag_name, 1, 4))
        element == HexInt(SubSeq(tag_name, 5, 8))
    IN  IF TagInDs(d, group, element)
        THEN Updated(SetValueAt(d, group, element, value), FALSE)
        ELSE Updated(d, FALSE)

\* The branch of a keyword.  For a name that is no keyword of the dictionary
\* setattr either raises, which except Exception swallows, or sets a plain
\* attribute of the object (refused tells which): no element changes.
update_tags_ds_keyword(d, tag_name, value, refused) ==
    IF KeywordTags(tag_name) = {}
    THEN Updated(d, refused)
    ELSE IF HasAttr(d, tag_name)
         THEN Updated(SetAttr(d, tag_name, value), FALSE)
         ELSE Updated(SetAttr(d, tag_name, value), FALSE)

\* What update_tags_ds(ds, tag_name, value) leaves: the Dataset it returns.
update_tags_ds(d, tag_name, value, refused) ==
    IF IsHexTagName(tag_name)
    THEN update_tags_ds_hex(d, tag_name, value)
    ELSE update_tags_ds_keyword(d, tag_name, value, refused)

TagNames ==
    { <<"0", "0", "0", "8", "0", "0", "6", "0">>,
      <<"0", "0", "2", "9", "1", "0", "1", "0">>,
      <<"0", "0", "0", "8", "1", "1", "1", "0">>,
      <<"7", "F", "e", "0", "0", "0", "1", "0">>,
      <<"3", "0", "2", "1", "0", "0", "1", "0">>,
      <<"M", "o", "d", "a", "l", "i", "t", "y">>,
      <<"P", "a", "t", "i", "e", "n", "t", "I", "D">>,
      <<"N", "o", "K", "e", "y", "w", "o", "r", "d">>,
      <<"0", "0", "0", "8", "0", "0", "6", "G">>,
      <<"0", "0", "0", "8">> }

NewValues == {StrValue("X"), SeqValue(<<>>)}

\* The tags tag_name may name, by number or by keyword.
NamedTags(tag_name) ==
    IF IsHexTagName(tag_name)
    THEN {t \in 1..NumTags :
            TagNumbers[t] = <<HexInt(SubSeq(tag_name, 1, 4)), HexInt(SubSeq(tag_name, 5, 8))>>}
    ELSE KeywordTags(tag_name)

\* The value is one the library stores in an element of the VR named: a list
\* of Datasets for a sequence, a scalar for any other.
Fits(tag_name, value) ==
    \A t \in NamedTags(tag_name) : (TagVR(t) = "SQ") <=> (value.py = "seq")

UpdateInit ==
    /\ ds \in DatasetsFrom(1, MaxUpdateNodes)
    /\ call = [op |-> "none"]
    /\ ret = "None"

\* ds = update_tags_ds(ds, tag_name, value)
UpdateTagsDs ==
    \E tag_name \in TagNames, value \in NewValues, refused \in BOOLEAN :
        /\ Fits(tag_name, value)
        /\ call' = [op |-> "update_tags_ds", ds |-> ds, tag_name |-> tag_name,
                    value |-> value]
        /\ ret' = update_tags_ds(ds, tag_name, value, refused)
        /\ ds' = ret'.returned

UpdateNext == UpdateTagsDs

SpecUpdate == UpdateInit /\ [][UpdateNext]_vars

(***************************************************************************)
(* C11: update_tags_ds never raises for a tag it cannot update and         *)
(* returns the Dataset it was given.  For a tag_name of 8 hexadecimal      *)
(* characters: if the Dataset has no element of that (group, element) it   *)
(* is left as it was, no element added; if it has one, that element's      *)
(* value becomes value and every other element is as before.  For any      *)
(* other tag_name: a keyword is set to value, present before or not, and   *)
(* every other element is as before; a name that is no keyword leaves the  *)
(* Dataset as it was, with the same outcome as for an absent tag.          *)
(***************************************************************************)
TagsOf(d) == {d[i].tag : i \in 1..Len(d)}
ElemOf(d, t) == d[CHOOSE i \in 1..Len(d) : d[i].tag = t]
InTagOrder(d) == \A i, j \in 1..Len(d) : i < j => d[i].tag < d[j].tag

\* The characters of tag_name are 8 and all of 0-9, A-F, a-f.
EightHex(tag_name) ==
    /\ Len(tag_name) = 8
    /\ \A j \in 1..8 :
          tag_name[j] \in {"0", "1", "2", "3", "4", "5", "6", "7", "8", "9",
                           "A", "B", "C", "D", "E", "F", "a", "b", "c", "d", "e", "f"}

\* After the call the Dataset is before, but for tag t, which holds value.
OnlyTagSet(before, after, t, value) ==
    /\ InTagOrder(after)
    /\ TagsOf(after) = TagsOf(before) \cup {t}
    /\ ElemOf(after, t) = [tag |-> t, VR |-> TagVR(t), value |-> value]
    /\ \A u \in TagsOf(before) \ {t} : ElemOf(after, u) = ElemOf(before, u)

====
